---- MODULE Spec2Model ----
(***************************************************************************)
(* A model of the Taiga MCP bridge (src/src/tools): the session registry   *)
(* active_sessions, the gate get_authenticated_client, the tools login,    *)
(* logout and session_status, and the update / assign / unassign tools of  *)
(* the versioned entities.                                                 *)
(*                                                                         *)
(* A tool invocation is a sequence of steps.  A step is the local code     *)
(* that runs between two blocking calls to the backend: it starts when a   *)
(* backend call returns (or when the tool is called) and ends when the     *)
(* next backend call is issued (or when the tool returns or raises).       *)
(* Every step touches active_sessions with at most one dict operation, so  *)
(* the steps of concurrent invocations interleave as the actions below.    *)
(*                                                                         *)
(* The backend (pytaigaclient against a Taiga server) is the environment:  *)
(* each call either succeeds or fails with a TaigaException or with any    *)
(* other exception, chosen freely.                                         *)
(***************************************************************************)
EXTENDS Integers, Sequences, FiniteSets, TLC

(***************************************************************************)
(* Bounds of the model.                                                    *)
(***************************************************************************)
\* login calls made in a run; one client wrapper is constructed per call
MaxLogins == 2
\* the backend stops accepting edits once an entity's version reaches this
MaxVersion == 3

\* the invokers that may have a tool invocation in flight at the same time
Threads == {"t1", "t2"}

\* Python's None in an integer-valued slot (a session id, a client, a user
\* id, a version)
None == -1

\* the 128-bit values uuid4 can return, and the ids a caller may pass
SessionIds == 1 .. MaxLogins
\* the client wrappers constructed, in order of construction
Handles == 1 .. MaxLogins
\* the id of the entity the entity tools are called on
EntityId == 42
\* the user id passed to assign_X_to_user
UserId == 7
\* a value for the subject field, and a version number passed by the caller
NewTitle == 1
CallerVersion == 3

\* the mutable entity types: each has an update tool and a delete tool
EntityTypes == {"project", "user_story", "task", "issue", "epic", "milestone"}

(***************************************************************************)
(* The backend's answers.  "ok" is a normal return.  "auth" (the token is  *)
(* rejected), "backend" (another error the API reports: validation,        *)
(* permission, rate limit, server error), "conflict" (stale version) and   *)
(* "not_found" are raised as TaigaException; "conn" (a timeout, a          *)
(* connection failure, or any other exception) is not a TaigaException.    *)
(***************************************************************************)
TaigaErrors == {"auth", "backend", "conflict", "not_found"}
IsTaigaException(o) == o \in TaigaErrors

(***************************************************************************)
(* State.                                                                  *)
(***************************************************************************)
VARIABLES
    active_sessions,   \* common.py: session id -> client wrapper
    is_authenticated,  \* the is_authenticated flag of each wrapper constructed
    uuids,             \* the values uuid4 has returned so far
    etype,             \* the entity type the entity tools of this run address
    entity,            \* the backend's entity EntityId of that type
    inv,               \* each invoker's tool invocation in flight
    issued,            \* history: <<session id, wrapper>> of each login that returned an id
    logged_out,        \* history: ids for which logout returned logged_out
    evicted            \* history: ids for which session_status returned token_invalid

vars == <<active_sessions, is_authenticated, uuids, etype, entity, inv,
          issued, logged_out, evicted>>

(***************************************************************************)
(* Python's dict operations and truth values.                              *)
(***************************************************************************)
dict_get(d, k) == IF k \in DOMAIN d THEN d[k] ELSE None
dict_pop(d, k) == [x \in DOMAIN d \ {k} |-> d[x]]
dict_set(d, k, v) == [x \in DOMAIN d \cup {k} |-> IF x = k THEN v ELSE d[x]]
\* bool(x) of an optional object reference
Truthy(x) == x # None
\* bool(x) of an optional integer: None and 0 are false
TruthyInt(x) == x # None /\ x # 0

(***************************************************************************)
(* Values.                                                                 *)
(***************************************************************************)
NoEntity == [id |-> None, version |-> None, assigned_to |-> None, tags |-> None]
NoResult == [kind |-> "none", status |-> "", reason |-> "", cause |-> "",
             session_id |-> None, username |-> "", entity |-> NoEntity]
\* a tool returned normally
Return(fields) == [f \in DOMAIN NoResult |->
                     IF f = "kind" THEN "return"
                     ELSE IF f \in DOMAIN fields THEN fields[f] ELSE NoResult[f]]
\* a tool raised: kind is the exception's class, cause what it reports
Raise(kind, cause) == [NoResult EXCEPT !.kind = kind, !.cause = cause]

\* an invocation: the tool and its arguments, where it stands, the wrapper it
\* resolved, the change set it built, the entity it fetched, the backend
\* calls it has issued, the number of times it went through
\* get_authenticated_client, the number of users its search matched, and
\* what it returned or raised
IdleInv == [tool |-> "none", sid |-> None, args |-> {}, pc |-> "idle",
            client |-> None, changes |-> {}, current |-> NoEntity,
            calls |-> <<>>, gates |-> 0, found |-> None, result |-> NoResult]
\* a backend call issued through a wrapper
Call(op, client, version, data) ==
    [op |-> op, client |-> client, version |-> version, data |-> data]

(***************************************************************************)
(* common.py                                                               *)
(***************************************************************************)
\* a gate that tests the flag of a wrapper it found and lets a missing
\* session through
gate_without_presence_test(session_id) ==
    LET client == dict_get(active_sessions, session_id)
    IN  IF Truthy(client) /\ ~is_authenticated[client]
        THEN [raised |-> "PermissionError", client |-> None]
        ELSE [raised |-> "", client |-> client]

\* get_authenticated_client: the wrapper, or PermissionError
get_authenticated_client(session_id) ==
    LET client == dict_get(active_sessions, session_id)
    IN  IF ~Truthy(client) \/ ~is_authenticated[client]
        THEN [raised |-> "PermissionError", client |-> None]
        ELSE [raised |-> "", client |-> client]

\* handle_taiga_exception re-raises e; handle_general_exception raises
\* RuntimeError("Server error ...: e")
handle_exception(o) ==
    IF IsTaigaException(o) THEN Raise("TaigaException", o)
    ELSE Raise("RuntimeError", o)

(***************************************************************************)
(* TaigaClientWrapper (src/taiga_client.py).                               *)
(***************************************************************************)
\* what wrapper.login can do: return True, return False, or raise
LoginOutcomes == {"True", "False", "TaigaException", "ValueError", "Exception"}
\* the flag is set true only after a successful login exchange
wrapper_login(flags, wrapper, outcome) ==
    [flags EXCEPT ![wrapper] = (outcome = "True")]

(***************************************************************************)
(* auth.py: login                                                          *)
(***************************************************************************)
\* an id source that only avoids the ids registered at the moment
ids_not_registered == SessionIds \ DOMAIN active_sessions

\* uuid4 returns a random 122-bit value: a value it has not returned before
uuid4 == SessionIds \ uuids

\* a login that stores the wrapper before it looks at the login's result
login_stores_unchecked(sessions, wrapper, login_successful, new_session_id) ==
    dict_set(sessions, new_session_id, wrapper)

\* a login that keys the registry by the credentials, not by the new id
login_stores_by_credentials(sessions, wrapper, login_successful, new_session_id) ==
    IF login_successful THEN dict_set(sessions, 1, wrapper) ELSE sessions

\* the registry after wrapper.login returned login_successful
login_sessions(sessions, wrapper, login_successful, new_session_id) ==
    IF login_successful THEN dict_set(sessions, new_session_id, wrapper)
    ELSE sessions

\* a login that wraps every failure of the exchange in RuntimeError
login_wraps_failures(outcome, new_session_id) ==
    IF outcome = "True" THEN Return([session_id |-> new_session_id])
    ELSE Raise("RuntimeError", outcome)

\* what login returns or raises
login_result(outcome, new_session_id) ==
    CASE outcome = "True" -> Return([session_id |-> new_session_id])
      [] outcome = "False" -> Raise("RuntimeError", "Login failed for an unknown reason.")
      [] outcome \in {"TaigaException", "ValueError"} -> Raise(outcome, outcome)
      [] OTHER -> Raise("RuntimeError", outcome)

\* login is called: the wrapper is constructed and the login exchange starts
StartLogin(t) ==
    /\ inv[t].pc = "idle"
    /\ Cardinality(DOMAIN is_authenticated) < MaxLogins
    /\ LET wrapper == Cardinality(DOMAIN is_authenticated) + 1
       IN  /\ is_authenticated' =
                 [h \in DOMAIN is_authenticated \cup {wrapper} |->
                     IF h = wrapper THEN FALSE ELSE is_authenticated[h]]
           /\ inv' = [inv EXCEPT ![t] =
                 [IdleInv EXCEPT !.tool = "login", !.pc = "login", !.client = wrapper,
                                 !.calls = <<Call("login", wrapper, None, {})>>]]
    /\ UNCHANGED <<active_sessions, uuids, etype, entity, issued, logged_out, evicted>>

\* the login exchange ends; login stores the wrapper and returns, or raises
LoginReturn(t) ==
    /\ inv[t].pc = "login"
    /\ \E outcome \in LoginOutcomes, new_session_id \in uuid4 :
         LET wrapper == inv[t].client
             login_successful == (outcome = "True")
             result == login_result(outcome, new_session_id)
         IN  /\ is_authenticated' = wrapper_login(is_authenticated, wrapper, outcome)
             /\ active_sessions' =
                   login_sessions(active_sessions, wrapper, login_successful, new_session_id)
             /\ uuids' = IF login_successful THEN uuids \cup {new_session_id} ELSE uuids
             /\ issued' = IF result.kind = "return"
                          THEN issued \cup {<<result.session_id, wrapper>>}
                          ELSE issued
             /\ inv' = [inv EXCEPT ![t].pc = "done", ![t].result = result]
    /\ UNCHANGED <<etype, entity, logged_out, evicted>>

(***************************************************************************)
(* auth.py: logout                                                         *)
(***************************************************************************)
\* a logout that reads the entry (get) and does not remove it
logout_keeps_entry(sessions, session_id) == sessions

\* a logout that empties the registry
logout_clears_all(sessions, session_id) == <<>>

\* the registry after logout: active_sessions.pop(session_id, None)
logout_sessions(sessions, session_id) == dict_pop(sessions, session_id)

logout_result(sessions, session_id) ==
    IF Truthy(dict_get(sessions, session_id))
    THEN Return([status |-> "logged_out", session_id |-> session_id])
    ELSE Return([status |-> "session_not_found", session_id |-> session_id])

\* logout issues no backend call: it is one step
Logout(t) ==
    /\ inv[t].pc = "idle"
    /\ \E session_id \in SessionIds :
         LET result == logout_result(active_sessions, session_id)
         IN  /\ active_sessions' = logout_sessions(active_sessions, session_id)
             /\ logged_out' = IF result.status = "logged_out"
                              THEN logged_out \cup {session_id} ELSE logged_out
             /\ inv' = [inv EXCEPT ![t] =
                   [IdleInv EXCEPT !.tool = "logout", !.sid = session_id,
                                   !.pc = "done", !.result = result]]
    /\ UNCHANGED <<is_authenticated, uuids, etype, entity, issued, evicted>>

(***************************************************************************)
(* auth.py: session_status                                                 *)
(***************************************************************************)
\* what users.me() can do
MeOutcomes == {"ok", "auth", "backend", "conn"}

\* a session_status that reports not_found whenever the gate would refuse
\* the session
lookup_like_gate(session_id) ==
    LET client_wrapper == dict_get(active_sessions, session_id)
    IN  IF Truthy(client_wrapper) /\ is_authenticated[client_wrapper] THEN ""
        ELSE "not_found"

\* the branch session_status takes on what it finds in the registry: "" is
\* the identity check, the others are the reason it returns inactive with
status_lookup(session_id) ==
    LET client_wrapper == dict_get(active_sessions, session_id)
    IN  IF Truthy(client_wrapper) /\ is_authenticated[client_wrapper] THEN ""
        ELSE IF Truthy(client_wrapper) THEN "not_authenticated"
        ELSE "not_found"

\* session_status is called: it looks the session up and calls users.me()
StartSessionStatus(t) ==
    /\ inv[t].pc = "idle"
    /\ \E session_id \in SessionIds :
         LET client_wrapper == dict_get(active_sessions, session_id)
             reason == status_lookup(session_id)
             started == [IdleInv EXCEPT !.tool = "session_status", !.sid = session_id]
         IN  inv' = [inv EXCEPT ![t] =
               IF reason = ""
               THEN [started EXCEPT !.pc = "me", !.client = client_wrapper,
                                    !.calls = <<Call("me", client_wrapper, None, {})>>]
               ELSE [started EXCEPT !.pc = "done", !.result =
                        Return([status |-> "inactive", reason |-> reason,
                                session_id |-> session_id])]]
    /\ UNCHANGED <<active_sessions, is_authenticated, uuids, etype, entity,
                   issued, logged_out, evicted>>

\* a session_status that reports token_invalid and does not remove the entry
status_keeps_entry(sessions, session_id, o) == sessions

\* a session_status that empties the registry when the token is rejected
status_clears_all(sessions, session_id, o) ==
    IF IsTaigaException(o) THEN <<>> ELSE sessions

\* the registry after users.me() ended with outcome o
session_status_sessions(sessions, session_id, o) ==
    IF IsTaigaException(o) THEN dict_pop(sessions, session_id) ELSE sessions

\* what users.me() returns
Me == [username |-> "alice"]

\* a session_status that lets the failure of users.me() through to its caller
status_raises(session_id, o) ==
    IF o = "ok" THEN Return([status |-> "active", session_id |-> session_id,
                             username |-> Me.username])
    ELSE handle_exception(o)

\* a session_status that reports active whatever users.me() did
status_always_active(session_id, o) ==
    Return([status |-> "active", session_id |-> session_id, username |-> Me.username])

session_status_result(session_id, o) ==
    CASE o = "ok" -> Return([status |-> "active", session_id |-> session_id,
                             username |-> Me.username])
      [] IsTaigaException(o) ->
            Return([status |-> "inactive", reason |-> "token_invalid",
                    session_id |-> session_id])
      [] OTHER -> Return([status |-> "error", reason |-> "check_failed",
                          session_id |-> session_id])

\* users.me() returns or raises
MeReturn(t) ==
    /\ inv[t].pc = "me"
    /\ \E o \in MeOutcomes :
         LET session_id == inv[t].sid
             result == session_status_result(session_id, o)
         IN  /\ active_sessions' = session_status_sessions(active_sessions, session_id, o)
             /\ evicted' = IF result.reason = "token_invalid"
                           THEN evicted \cup {session_id} ELSE evicted
             /\ inv' = [inv EXCEPT ![t].pc = "done", ![t].result = [result EXCEPT !.cause = o]]
    /\ UNCHANGED <<is_authenticated, uuids, etype, entity, issued, logged_out>>

(***************************************************************************)
(* project.py: list_projects                                               *)
(***************************************************************************)
\* how a backend call can fail, besides a version conflict
CallErrors == {"not_found", "conn"}

\* list_projects is called: the gate, then projects.list()
StartListProjects(t) ==
    /\ inv[t].pc = "idle"
    /\ \E session_id \in SessionIds :
         LET gate == get_authenticated_client(session_id)
             started == [IdleInv EXCEPT !.tool = "list_projects", !.sid = session_id,
                                        !.gates = 1]
         IN  inv' = [inv EXCEPT ![t] =
               IF gate.raised # ""
               THEN [started EXCEPT !.pc = "done", !.result = Raise(gate.raised, "")]
               ELSE [started EXCEPT !.pc = "list", !.client = gate.client,
                                    !.calls = <<Call("list", gate.client, None, {})>>]]
    /\ UNCHANGED <<active_sessions, is_authenticated, uuids, etype, entity,
                   issued, logged_out, evicted>>

\* projects.list() returns the projects, or raises
ListReturn(t) ==
    /\ inv[t].pc = "list"
    /\ \E o \in {"ok"} \cup CallErrors :
         inv' = [inv EXCEPT ![t].pc = "done",
                            ![t].result = IF o = "ok" THEN Return(<<>>)
                                          ELSE handle_exception(o)]
    /\ UNCHANGED <<active_sessions, is_authenticated, uuids, etype, entity,
                   issued, logged_out, evicted>>

(***************************************************************************)
(* project.py, story.py, task.py, issue.py, epic.py, milestone.py:         *)
(* update_X, assign_X_to_user, unassign_X_from_user                        *)
(***************************************************************************)
\* the entity types with assign_X_to_user and unassign_X_from_user
Assignable == {"user_story", "task", "issue", "epic"}
\* the update tools that pass the change set to edit as **kwargs
KwargsSpread == {"project", "user_story", "epic", "milestone"}
\* the named parameters of update_task that are dropped when None
TaskParams == {"subject", "description", "due_date", "tags", "assigned_to",
               "milestone_id", "status_id", "user_story_id"}

\* the keyword arguments a caller passes to update_X: field -> value
UpdateArgs == {{}, {<<"subject", NewTitle>>}, {<<"version", CallerVersion>>}}
\* assign_X_to_user and unassign_X_from_user call update_X with these
assign_kwargs(user_id) == {<<"assigned_to", user_id>>}
unassign_kwargs == {<<"assigned_to", None>>}

(***************************************************************************)
(* Tags.  A list of tags is the sum of the numbers of its tags: 1 is a tag *)
(* a task carries, 2 and 4 are the tags callers add, and 8 is one tag      *)
(* whose text is the text of 2, a comma, and the text of 4.  The same      *)
(* number stands for the list joined by commas.                            *)
(***************************************************************************)
TagBits == {1, 2, 4, 8}
tag_set(tags) == {b \in TagBits : (tags \div b) % 2 = 1}
tag_list(S) ==
    LET bit(b) == IF b \in S THEN b ELSE 0
    IN  bit(1) + bit(2) + bit(4) + bit(8)
\* the pieces tag.split(',') cuts a tag into
tag_parts(b) == IF b = 8 THEN {2, 4} ELSE {b}
\* [tag.strip() for tag in tags.split(',') if tag.strip()]
split_tags(tags) == tag_list(UNION {tag_parts(b) : b \in tag_set(tags)})
\* list(set(current_tags + new_tag_list))
merge_tags(current_tags, new_tag_list) ==
    tag_list(tag_set(current_tags) \cup tag_set(new_tag_list))

\* the change set update_X builds from its keyword arguments: update_task
\* copies a named parameter only if it is not None and splits tags at the
\* commas, the others take kwargs
update_data(type, kwargs) ==
    IF type = "task"
    THEN {IF p[1] = "tags" THEN <<"tags", split_tags(p[2])>> ELSE p :
            p \in {q \in kwargs : q[1] \in TaskParams => q[2] # None}}
    ELSE kwargs

\* an update without the short-circuit for an empty change set
never_no_fields(changes) == FALSE

\* "if not kwargs" / "if not update_data": nothing to update
no_fields(changes) == changes = {}

\* "if not version": no version could be determined
no_version(version) == ~TruthyInt(version)

\* edit(X_id=..., version=version, **kwargs) is a TypeError when kwargs
\* holds the key version
edit_type_error(type, changes) ==
    type \in KwargsSpread /\ \E p \in changes : p[1] = "version"

\* what an exception reports: the failure it was raised for
Cause(r) == IF r.cause = "" THEN r.kind ELSE r.cause

\* a composite tool that hands every exception, a ValueError too, to
\* handle_general_exception
caller_wraps_all(tool, r) ==
    IF r.kind \in {"none", "return"} THEN r
    ELSE IF tool = "assign_task_by_username" THEN Raise("TypeError", Cause(r))
    ELSE IF tool = "add_task_tags"
    THEN (IF r.kind = "TaigaException" THEN r ELSE Raise("RuntimeError", Cause(r)))
    ELSE r

\* what a composite tool does with what the search_users or update_task it
\* called raised inside its try block.  assign_task_by_username (task.py:
\* 302-306) re-raises a ValueError and passes any other exception to
\* handle_general_exception with three arguments instead of four, which is a
\* TypeError; add_task_tags (task.py:379-382) re-raises a TaigaException and
\* wraps any other exception in RuntimeError.  A tool that is update_X itself
\* has no caller inside the process.
caller_result(tool, r) ==
    IF r.kind \in {"none", "return"} THEN r
    ELSE IF tool = "assign_task_by_username"
    THEN (IF r.kind = "ValueError" THEN r ELSE Raise("TypeError", Cause(r)))
    ELSE IF tool = "add_task_tags"
    THEN (IF r.kind = "TaigaException" THEN r ELSE Raise("RuntimeError", Cause(r)))
    ELSE r

\* a tool that issues the same backend call again after it failed, up to
\* three calls
retry_failed_call(i, o) ==
    IF Len(i.calls) < 3
    THEN [i EXCEPT !.calls = Append(i.calls, i.calls[Len(i.calls)])]
    ELSE [i EXCEPT !.pc = "done", !.result = caller_result(i.tool, handle_exception(o))]

\* a tool that logs the failure of a backend call and returns the entity it
\* holds
swallow_failed_call(i, o) ==
    [i EXCEPT !.pc = "done", !.result = Return([entity |-> i.current])]

\* a delete that logs the failure of X.delete and reports deleted
report_deleted(i, o) ==
    [i EXCEPT !.pc = "done",
              !.result = Return([status |-> "deleted", cause |-> o,
                                 entity |-> [NoEntity EXCEPT !.id = EntityId]])]

\* the invocation after a backend call of its try block failed with o: the
\* except clauses raise, and nothing else is called
failed_call(i, o) ==
    [i EXCEPT !.pc = "done", !.result = caller_result(i.tool, handle_exception(o))]

\* update_X called inside invocation i: the gate, the change set, and the get
update_call(i, session_id, kwargs) ==
    LET gate == get_authenticated_client(session_id)
        entered == [i EXCEPT !.gates = i.gates + 1]
    IN  IF gate.raised # ""
        THEN [entered EXCEPT !.pc = "done",
                 !.result = caller_result(i.tool, Raise(gate.raised, ""))]
        ELSE [entered EXCEPT !.pc = "get", !.client = gate.client,
                 !.changes = update_data(etype, kwargs),
                 !.calls = Append(i.calls, Call("get", gate.client, None, {}))]

\* the first step of update_X called as a tool
update_start(tool, session_id, kwargs) ==
    update_call([IdleInv EXCEPT !.tool = tool, !.sid = session_id, !.args = kwargs],
                session_id, kwargs)

StartUpdate(t) ==
    /\ inv[t].pc = "idle"
    /\ \E session_id \in SessionIds, kwargs \in UpdateArgs :
         inv' = [inv EXCEPT ![t] = update_start("update", session_id, kwargs)]
    /\ UNCHANGED <<active_sessions, is_authenticated, uuids, etype, entity,
                   issued, logged_out, evicted>>

StartAssign(t) ==
    /\ inv[t].pc = "idle"
    /\ etype \in Assignable
    /\ \E session_id \in SessionIds :
         inv' = [inv EXCEPT ![t] =
                   update_start("assign", session_id, assign_kwargs(UserId))]
    /\ UNCHANGED <<active_sessions, is_authenticated, uuids, etype, entity,
                   issued, logged_out, evicted>>

StartUnassign(t) ==
    /\ inv[t].pc = "idle"
    /\ etype \in Assignable
    /\ \E session_id \in SessionIds :
         inv' = [inv EXCEPT ![t] =
                   update_start("unassign", session_id, unassign_kwargs)]
    /\ UNCHANGED <<active_sessions, is_authenticated, uuids, etype, entity,
                   issued, logged_out, evicted>>

\* update_X after X.get returned current: return it, raise, or issue the edit
update_after_get(i, current) ==
    LET fetched == [i EXCEPT !.current = current]
        version == current.version
    IN  IF no_fields(i.changes)
        THEN [fetched EXCEPT !.pc = "done", !.result = Return([entity |-> current])]
        ELSE IF no_version(version)
        THEN [fetched EXCEPT !.pc = "done",
                 !.result = caller_result(i.tool, Raise("RuntimeError", "ValueError"))]
        ELSE IF edit_type_error(etype, i.changes)
        THEN [fetched EXCEPT !.pc = "done",
                 !.result = caller_result(i.tool, Raise("RuntimeError", "TypeError"))]
        ELSE [fetched EXCEPT !.pc = "edit",
                !.calls = Append(i.calls, Call("edit", i.client, version, i.changes))]

\* X.get returns the entity, with or without a version, or raises
GetReturn(t) ==
    /\ inv[t].pc = "get"
    /\ \/ \E current \in {entity, [entity EXCEPT !.version = None]} :
            inv' = [inv EXCEPT ![t] = update_after_get(inv[t], current)]
       \/ \E o \in CallErrors :
            inv' = [inv EXCEPT ![t] = failed_call(inv[t], o)]
    /\ UNCHANGED <<active_sessions, is_authenticated, uuids, etype, entity,
                   issued, logged_out, evicted>>

\* the value the change set gives field name, or default
changed(changes, name, default) ==
    IF \E p \in changes : p[1] = name
    THEN (CHOOSE p \in changes : p[1] = name)[2]
    ELSE default

\* the backend's entity after it accepted an edit
edited(e, changes) ==
    [e EXCEPT !.version = e.version + 1,
              !.assigned_to = changed(changes, "assigned_to", e.assigned_to),
              !.tags = changed(changes, "tags", e.tags)]

\* X.edit returns the edited entity, or raises: the backend rejects an edit
\* whose version is not the entity's
EditReturn(t) ==
    /\ inv[t].pc = "edit"
    /\ LET call == inv[t].calls[Len(inv[t].calls)]
       IN  \/ /\ call.version = entity.version
              /\ entity.version < MaxVersion
              /\ entity' = edited(entity, call.data)
              /\ inv' = [inv EXCEPT ![t].pc = "done",
                                    ![t].result = Return([entity |-> entity'])]
           \/ /\ call.version # entity.version
              /\ inv' = [inv EXCEPT ![t] = failed_call(inv[t], "conflict")]
              /\ UNCHANGED entity
           \/ /\ \E o \in CallErrors :
                    inv' = [inv EXCEPT ![t] = failed_call(inv[t], o)]
              /\ UNCHANGED entity
    /\ UNCHANGED <<active_sessions, is_authenticated, uuids, etype,
                   issued, logged_out, evicted>>

(***************************************************************************)
(* delete_X                                                                *)
(***************************************************************************)
\* {"status": "deleted", "X_id": X_id}
delete_result(X_id) ==
    Return([status |-> "deleted", entity |-> [NoEntity EXCEPT !.id = X_id]])

\* delete_X is called: the gate, then X.delete
StartDelete(t) ==
    /\ inv[t].pc = "idle"
    /\ \E session_id \in SessionIds :
         LET gate == get_authenticated_client(session_id)
             started == [IdleInv EXCEPT !.tool = "delete", !.sid = session_id,
                                        !.gates = 1]
         IN  inv' = [inv EXCEPT ![t] =
               IF gate.raised # ""
               THEN [started EXCEPT !.pc = "done", !.result = Raise(gate.raised, "")]
               ELSE [started EXCEPT !.pc = "delete", !.client = gate.client,
                                    !.calls = <<Call("delete", gate.client, None, {})>>]]
    /\ UNCHANGED <<active_sessions, is_authenticated, uuids, etype, entity,
                   issued, logged_out, evicted>>

\* X.delete returns, or raises.  What the backend answers to a get or an edit
\* of a deleted entity is among the failures those calls can end with.
DeleteReturn(t) ==
    /\ inv[t].pc = "delete"
    /\ \/ inv' = [inv EXCEPT ![t].pc = "done",
                             ![t].result = delete_result(EntityId)]
       \/ \E o \in CallErrors :
            inv' = [inv EXCEPT ![t] = failed_call(inv[t], o)]
    /\ UNCHANGED <<active_sessions, is_authenticated, uuids, etype, entity,
                   issued, logged_out, evicted>>

(***************************************************************************)
(* task.py: add_task_tags, search_users, assign_task_by_username           *)
(***************************************************************************)
\* the new_tags a caller passes to add_task_tags
NewTags == {2, 4}

\* add_task_tags is called: the gate, then tasks.get
StartAddTags(t) ==
    /\ inv[t].pc = "idle"
    /\ \E session_id \in SessionIds, new_tags \in NewTags :
         LET gate == get_authenticated_client(session_id)
             started == [IdleInv EXCEPT !.tool = "add_task_tags", !.sid = session_id,
                                        !.args = {<<"new_tags", new_tags>>},
                                        !.gates = 1]
         IN  inv' = [inv EXCEPT ![t] =
               IF gate.raised # ""
               THEN [started EXCEPT !.pc = "done", !.result = Raise(gate.raised, "")]
               ELSE [started EXCEPT !.pc = "tags_get", !.client = gate.client,
                                    !.calls = <<Call("get", gate.client, None, {})>>]]
    /\ UNCHANGED <<active_sessions, is_authenticated, uuids, etype, entity,
                   issued, logged_out, evicted>>

\* tasks.get returns the task: add_task_tags merges the tags and calls
\* update_task with them; or tasks.get raises
AddTagsGetReturn(t) ==
    /\ inv[t].pc = "tags_get"
    /\ \/ LET current_task == entity
              new_tag_list == changed(inv[t].args, "new_tags", 0)
              all_tags == merge_tags(current_task.tags, new_tag_list)
          IN  inv' = [inv EXCEPT ![t] =
                        update_call([inv[t] EXCEPT !.current = current_task],
                                    inv[t].sid, {<<"tags", all_tags>>})]
       \/ \E o \in CallErrors :
            inv' = [inv EXCEPT ![t] = failed_call(inv[t], o)]
    /\ UNCHANGED <<active_sessions, is_authenticated, uuids, etype, entity,
                   issued, logged_out, evicted>>

\* assign_task_by_username is called: search_users goes through the gate and
\* calls memberships.list
StartAssignByUsername(t) ==
    /\ inv[t].pc = "idle"
    /\ \E session_id \in SessionIds :
         LET gate == get_authenticated_client(session_id)
             started == [IdleInv EXCEPT !.tool = "assign_task_by_username",
                                        !.sid = session_id, !.gates = 1]
         IN  inv' = [inv EXCEPT ![t] =
               IF gate.raised # ""
               THEN [started EXCEPT !.pc = "done",
                        !.result = caller_result(started.tool, Raise(gate.raised, ""))]
               ELSE [started EXCEPT !.pc = "search", !.client = gate.client,
                                    !.calls = <<Call("list", gate.client, None, {})>>]]
    /\ UNCHANGED <<active_sessions, is_authenticated, uuids, etype, entity,
                   issued, logged_out, evicted>>

\* memberships.list returns and search_users finds no, one or several users:
\* ValueError, update_task with the user's id, or the list of matches; or
\* memberships.list raises
SearchReturn(t) ==
    /\ inv[t].pc = "search"
    /\ \/ \E users \in 0 .. 2 :
            LET searched == [inv[t] EXCEPT !.found = users]
            IN  inv' = [inv EXCEPT ![t] =
               IF users = 0
               THEN [searched EXCEPT !.pc = "done",
                        !.result = caller_result(searched.tool, Raise("ValueError", "ValueError"))]
               ELSE IF users > 1
               THEN [searched EXCEPT !.pc = "done",
                        !.result = Return([status |-> "multiple_matches"])]
               ELSE update_call(searched, searched.sid, assign_kwargs(UserId))]
       \/ \E o \in CallErrors :
            inv' = [inv EXCEPT ![t] = failed_call(inv[t], o)]
    /\ UNCHANGED <<active_sessions, is_authenticated, uuids, etype, entity,
                   issued, logged_out, evicted>>

(***************************************************************************)
(* project.py, story.py, task.py, issue.py, epic.py, milestone.py, user.py: *)
(* create_X and invite_project_user                                        *)
(***************************************************************************)
\* what a create tool makes: an entity of one of the types, or a membership
\* (invite_project_user)
CreateTypes == EntityTypes \cup {"membership"}

\* the empty string
Empty == 0
\* what a caller can pass for a text parameter
TextValues == {None, Empty, NewTitle}

\* the text parameters a create tool's signature requires
required_text(type) ==
    IF type = "project" THEN {"name", "description"}
    ELSE IF type = "milestone" THEN {"name", "estimated_start", "estimated_finish"}
    ELSE IF type = "membership" THEN {"email"}
    ELSE {"subject"}

\* the arguments a caller can pass: a value for each required text parameter
CreateArgs(type) ==
    {{<<f, v[f]>> : f \in required_text(type)} :
        v \in [required_text(type) -> TextValues]}

\* a validation that tests the first required parameter only
create_tests_first_only(type, args) ==
    IF type \in {"project", "milestone"}
    THEN ~TruthyInt(changed(args, "name", None))
    ELSE IF type = "membership"
    THEN ~TruthyInt(changed(args, "email", None))
    ELSE ~TruthyInt(changed(args, "subject", None))

\* the test before the try block: "if not name or not description",
\* "if not subject", "if not all([name, estimated_start, estimated_finish])",
\* "if not email"
create_invalid(type, args) ==
    IF type = "project"
    THEN ~TruthyInt(changed(args, "name", None))
            \/ ~TruthyInt(changed(args, "description", None))
    ELSE IF type = "milestone"
    THEN ~(/\ TruthyInt(changed(args, "name", None))
           /\ TruthyInt(changed(args, "estimated_start", None))
           /\ TruthyInt(changed(args, "estimated_finish", None)))
    ELSE IF type = "membership"
    THEN ~TruthyInt(changed(args, "email", None))
    ELSE ~TruthyInt(changed(args, "subject", None))

\* create_X or invite_project_user is called: the gate, the test of the
\* required parameters, which raises ValueError outside the try block, then
\* X.create
StartCreate(t) ==
    /\ inv[t].pc = "idle"
    /\ \E session_id \in SessionIds, args \in CreateArgs(etype) :
         LET gate == get_authenticated_client(session_id)
             started == [IdleInv EXCEPT !.tool = "create", !.sid = session_id,
                                        !.args = args, !.gates = 1]
         IN  inv' = [inv EXCEPT ![t] =
               IF gate.raised # ""
               THEN [started EXCEPT !.pc = "done", !.result = Raise(gate.raised, "")]
               ELSE IF create_invalid(etype, args)
               THEN [started EXCEPT !.pc = "done", !.client = gate.client,
                                    !.result = Raise("ValueError", "")]
               ELSE [started EXCEPT !.pc = "create", !.client = gate.client,
                                    !.calls = <<Call("create", gate.client, None, args)>>]]
    /\ UNCHANGED <<active_sessions, is_authenticated, uuids, etype, entity,
                   issued, logged_out, evicted>>

\* X.create returns what was created, or raises
CreateReturn(t) ==
    /\ inv[t].pc = "create"
    /\ \/ inv' = [inv EXCEPT ![t].pc = "done",
                             ![t].result = Return([entity |-> entity])]
       \/ \E o \in CallErrors :
            inv' = [inv EXCEPT ![t] = failed_call(inv[t], o)]
    /\ UNCHANGED <<active_sessions, is_authenticated, uuids, etype, entity,
                   issued, logged_out, evicted>>

(***************************************************************************)
(* auth.py: ping                                                           *)
(***************************************************************************)
\* how requests.get(api_url, timeout=10) can end: a response with status 200
\* or another status, requests.exceptions.Timeout,
\* requests.exceptions.ConnectionError, or another exception
PingOutcomes == {"200", "500", "Timeout", "ConnectionError", "Exception"}

\* a ping that lets the exceptions of the request reach its caller
ping_raises(o) ==
    IF o = "200" THEN Return([status |-> "success", reason |-> o])
    ELSE IF o = "500" THEN Return([status |-> "warning", reason |-> o])
    ELSE Raise(o, o)

\* what ping returns: the status, and the http_status or message that says
\* how the request ended
ping_result(o) ==
    IF o = "200" THEN Return([status |-> "success", reason |-> o])
    ELSE IF o = "500" THEN Return([status |-> "warning", reason |-> o])
    ELSE IF o = "Timeout" THEN Return([status |-> "timeout", reason |-> o])
    ELSE Return([status |-> "error", reason |-> o])

\* ping is called with a host: it takes no session and issues the request
StartPing(t) ==
    /\ inv[t].pc = "idle"
    /\ inv' = [inv EXCEPT ![t] =
          [IdleInv EXCEPT !.tool = "ping", !.pc = "ping",
                          !.calls = <<Call("request", None, None, {})>>]]
    /\ UNCHANGED <<active_sessions, is_authenticated, uuids, etype, entity,
                   issued, logged_out, evicted>>

\* the request ends
PingReturn(t) ==
    /\ inv[t].pc = "ping"
    /\ \E o \in PingOutcomes :
         inv' = [inv EXCEPT ![t].pc = "done", ![t].result = ping_result(o)]
    /\ UNCHANGED <<active_sessions, is_authenticated, uuids, etype, entity,
                   issued, logged_out, evicted>>

(***************************************************************************)
(* The caller receives the result; the invoker is free for the next call.  *)
(***************************************************************************)
Finish(t) ==
    /\ inv[t].pc = "done"
    /\ inv' = [inv EXCEPT ![t] = IdleInv]
    /\ UNCHANGED <<active_sessions, is_authenticated, uuids, etype, entity,
                   issued, logged_out, evicted>>

(***************************************************************************)
(* The specification.                                                      *)
(***************************************************************************)
\* after construction: no session.  The tools of Next read neither etype
\* nor entity.
Init ==
    /\ active_sessions = <<>>
    /\ is_authenticated = <<>>
    /\ uuids = {}
    /\ etype = "project"
    /\ entity = [id |-> EntityId, version |-> 1, assigned_to |-> None, tags |-> 0]
    /\ inv = [t \in Threads |-> IdleInv]
    /\ issued = {}
    /\ logged_out = {}
    /\ evicted = {}

\* the session tools and list_projects
Next ==
    \E t \in Threads :
        \/ StartLogin(t)
        \/ LoginReturn(t)
        \/ Logout(t)
        \/ StartSessionStatus(t)
        \/ MeReturn(t)
        \/ StartListProjects(t)
        \/ ListReturn(t)
        \/ Finish(t)

Spec == Init /\ [][Next]_vars

\* after one login returned session id 1; the backend holds the entity of
\* the type addressed, at any version
InitUpdate ==
    /\ active_sessions = (1 :> 1)
    /\ is_authenticated = (1 :> TRUE)
    /\ uuids = {1}
    /\ etype \in EntityTypes
    /\ entity \in [id : {EntityId}, version : {0, 1}, assigned_to : {None}, tags : {0}]
    /\ inv = [t \in Threads |-> IdleInv]
    /\ issued = {<<1, 1>>}
    /\ logged_out = {}
    /\ evicted = {}

\* the entity tools, and logout
NextUpdate ==
    \E t \in Threads :
        \/ Logout(t)
        \/ StartUpdate(t)
        \/ StartAssign(t)
        \/ StartUnassign(t)
        \/ GetReturn(t)
        \/ EditReturn(t)
        \/ StartDelete(t)
        \/ DeleteReturn(t)
        \/ Finish(t)

SpecUpdate == InitUpdate /\ [][NextUpdate]_vars

\* a backend call that was issued returns or raises
SpecUpdateFair ==
    /\ SpecUpdate
    /\ \A t \in Threads :
          WF_vars(GetReturn(t)) /\ WF_vars(EditReturn(t)) /\ WF_vars(DeleteReturn(t))

\* after one login returned session id 1; the backend holds a task that
\* carries one tag
InitTask ==
    /\ active_sessions = (1 :> 1)
    /\ is_authenticated = (1 :> TRUE)
    /\ uuids = {1}
    /\ etype = "task"
    /\ entity \in [id : {EntityId}, version : {1}, assigned_to : {None}, tags : {1, 8}]
    /\ inv = [t \in Threads |-> IdleInv]
    /\ issued = {<<1, 1>>}
    /\ logged_out = {}
    /\ evicted = {}

\* the composite tools of task.py, and logout
NextTask ==
    \E t \in Threads :
        \/ Logout(t)
        \/ StartAddTags(t)
        \/ AddTagsGetReturn(t)
        \/ StartAssignByUsername(t)
        \/ SearchReturn(t)
        \/ GetReturn(t)
        \/ EditReturn(t)
        \/ Finish(t)

SpecTask == InitTask /\ [][NextTask]_vars

\* after one login returned session id 1; the tool called is the create tool
\* of one type
InitCreate ==
    /\ active_sessions = (1 :> 1)
    /\ is_authenticated = (1 :> TRUE)
    /\ uuids = {1}
    /\ etype \in CreateTypes
    /\ entity = [id |-> EntityId, version |-> 1, assigned_to |-> None, tags |-> 0]
    /\ inv = [t \in Threads |-> IdleInv]
    /\ issued = {<<1, 1>>}
    /\ logged_out = {}
    /\ evicted = {}

\* the create tools, ping, and logout
NextCreate ==
    \E t \in Threads :
        \/ Logout(t)
        \/ StartCreate(t)
        \/ CreateReturn(t)
        \/ StartPing(t)
        \/ PingReturn(t)
        \/ Finish(t)

SpecCreate == InitCreate /\ [][NextCreate]_vars

\* after logins returned session ids 1 and 2, with every value the wrappers'
\* is_authenticated flags can have: TaigaClientWrapper owns the flag, and
\* session_status and the gate read it
InitStatus ==
    /\ active_sessions \in {(1 :> 1), (1 :> 1) @@ (2 :> 2)}
    /\ is_authenticated \in [Handles -> BOOLEAN]
    /\ uuids = SessionIds
    /\ etype = "project"
    /\ entity = [id |-> EntityId, version |-> 1, assigned_to |-> None, tags |-> 0]
    /\ inv = [t \in Threads |-> IdleInv]
    /\ issued = {<<1, 1>>, <<2, 2>>}
    /\ logged_out = {}
    /\ evicted = {}

\* session_status, list_projects and logout
NextStatus ==
    \E t \in Threads :
        \/ Logout(t)
        \/ StartSessionStatus(t)
        \/ MeReturn(t)
        \/ StartListProjects(t)
        \/ ListReturn(t)
        \/ Finish(t)

SpecStatus == InitStatus /\ [][NextStatus]_vars

(***************************************************************************)
(* The claims.                                                             *)
(***************************************************************************)
IssuedIds == {p[1] : p \in issued}
Removed == logged_out \cup evicted
UpdateTools == {"update", "assign", "unassign"}
\* an invocation of tool that has ended
Done(t, tool) == inv[t].tool = tool /\ inv[t].pc = "done"

\* C1: in every state and for every session id s, the gate returns a wrapper
\* if and only if a login returned s and neither logout(s) nor an eviction by
\* session_status(s) has removed it since; otherwise it raises PermissionError.
C1_GateCorrectness ==
    \A s \in SessionIds :
        LET gate == get_authenticated_client(s)
        IN  IF s \in IssuedIds \ Removed
            THEN gate.raised = "" /\ gate.client \in DOMAIN is_authenticated
            ELSE gate.raised = "PermissionError" /\ gate.client = None

\* one invocation was refused for a session that was logged out while another
\* passed the gate with a live session
C1_Witness ==
    \E t, u \in Threads :
        /\ Done(t, "list_projects")
        /\ inv[t].result.kind = "PermissionError"
        /\ inv[t].sid \in logged_out
        /\ inv[u].tool = "list_projects"
        /\ inv[u].pc = "list"
        /\ inv[u].sid \in IssuedIds \ Removed
        /\ inv[u].client = get_authenticated_client(inv[u].sid).client

\* C2: a step of a login that does not return a session id leaves the registry
\* as it is and yields no session id; an entry appears in the registry only in
\* the step in which a login returns its id, after its exchange succeeded.
C2_FailedLoginStoresNothing ==
    [][ /\ \A t \in Threads :
             (inv'[t].tool = "login" /\ inv'[t] # inv[t] /\ inv'[t].result.kind # "return")
             => (active_sessions' = active_sessions /\ inv'[t].result.session_id = None)
        /\ \A s \in DOMAIN active_sessions' \ DOMAIN active_sessions :
             \E t \in Threads :
                /\ inv[t].pc = "login"
                /\ inv'[t].result.kind = "return"
                /\ inv'[t].result.session_id = s
                /\ active_sessions'[s] = inv[t].client
                /\ is_authenticated'[inv[t].client]
      ]_vars

\* a login failed while a session was registered
C2_Witness ==
    \E t \in Threads :
        /\ Done(t, "login")
        /\ inv[t].result.kind \in {"TaigaException", "RuntimeError", "ValueError"}
        /\ inv[t].result.session_id = None
        /\ DOMAIN active_sessions # {}

\* C3: two logins that returned ids returned distinct ids, and an id that
\* passes the gate resolves to the wrapper of the login that returned it.
C3_SessionIsolation ==
    /\ \A p, q \in issued : p # q => p[1] # q[1]
    /\ \A p \in issued :
          LET gate == get_authenticated_client(p[1])
          IN  gate.raised = "" => gate.client = p[2]

\* two sessions are live, each resolving to its own wrapper
C3_Witness ==
    /\ Cardinality(issued) = 2
    /\ \A p \in issued : get_authenticated_client(p[1]) = [raised |-> "", client |-> p[2]]

\* C4: a registered id maps to the one wrapper it was issued for, an id is
\* issued once, and an id removed by logout or eviction is never registered again.
C4_NoReuse ==
    /\ \A s \in DOMAIN active_sessions : <<s, active_sessions[s]>> \in issued
    /\ \A p, q \in issued : p[1] = q[1] => p[2] = q[2]
    /\ \A s \in Removed : s \notin DOMAIN active_sessions

\* a login returned a fresh id after another id was removed
C4_Witness ==
    \E t \in Threads, s \in Removed :
        /\ Done(t, "login")
        /\ inv[t].result.kind = "return"
        /\ inv[t].result.session_id # s
        /\ inv[t].result.session_id \in DOMAIN active_sessions
        /\ \E p \in issued : p[1] = s /\ p[2] < inv[t].client

\* C5: logout never raises; it reports logged_out exactly if s was registered
\* and leaves s unregistered; a logout of an id already logged out, or of an id
\* no login returned, reports session_not_found and leaves the registry as it is.
C5_IdempotentLogout ==
    [][ \A t \in Threads :
           (inv[t].pc = "idle" /\ inv'[t].tool = "logout") =>
              LET s == inv'[t].sid
                  r == inv'[t].result
              IN  /\ inv'[t].pc = "done"
                  /\ r.kind = "return"
                  /\ r.status = IF s \in DOMAIN active_sessions
                                THEN "logged_out" ELSE "session_not_found"
                  /\ s \notin DOMAIN active_sessions'
                  /\ (s \in logged_out \/ s \notin IssuedIds)
                        => /\ r.status = "session_not_found"
                           /\ active_sessions' = active_sessions
      ]_vars

\* a second logout of a session reported session_not_found
C5_Witness ==
    \E t \in Threads :
        /\ Done(t, "logout")
        /\ inv[t].sid \in logged_out
        /\ inv[t].result.status = "session_not_found"

\* C6: a session_status whose identity check failed with an authentication
\* error reports inactive, token_invalid; the session is then not registered
\* and the gate refuses it.
C6_LazyEviction ==
    /\ \A t \in Threads :
          (Done(t, "session_status") /\ inv[t].result.cause = "auth")
          => /\ inv[t].result.kind = "return"
             /\ inv[t].result.status = "inactive"
             /\ inv[t].result.reason = "token_invalid"
             /\ inv[t].sid \in evicted
    /\ \A s \in evicted :
          /\ s \notin DOMAIN active_sessions
          /\ get_authenticated_client(s).raised = "PermissionError"

\* after the eviction of a session a tool called with it was refused
C6_Witness ==
    \E t, u \in Threads :
        /\ Done(t, "session_status")
        /\ inv[t].result.cause = "auth"
        /\ inv[t].result.reason = "token_invalid"
        /\ Done(u, "list_projects")
        /\ inv[u].sid = inv[t].sid
        /\ inv[u].result.kind = "PermissionError"

\* C7: a session_status whose identity check failed with an error that is not
\* an authentication error reports error, check_failed and leaves the registry
\* as it is.
C7_EvictionPrecision ==
    [][ \A t \in Threads :
           (/\ inv[t].pc = "me"
            /\ inv'[t].pc = "done"
            /\ inv'[t].result.cause \in {"backend", "conn"})
           => /\ inv'[t].result.status = "error"
              /\ inv'[t].result.reason = "check_failed"
              /\ active_sessions' = active_sessions
      ]_vars

\* C8: an update with a valid session and a non-empty change set, whose get
\* returned an integer version, has issued one get and then one edit with
\* that version and the change set; what it returns is the edit's result.
C8_GetThenEdit ==
    \A t \in Threads :
        (/\ inv[t].tool \in UpdateTools
         /\ inv[t].pc = "done"
         /\ inv[t].client # None
         /\ inv[t].changes # {}
         /\ inv[t].current.version \in Nat)
        => /\ Len(inv[t].calls) = 2
           /\ inv[t].calls[1] = Call("get", inv[t].client, None, {})
           /\ inv[t].calls[2] =
                 Call("edit", inv[t].client, inv[t].current.version, inv[t].changes)
           /\ inv[t].result.kind = "return"
                 => inv[t].result.entity.version = inv[t].current.version + 1

\* C9: an update with a valid session and an empty change set issues one get
\* and no edit, and what it returns is the entity the get returned.
C9_NoopShortCircuit ==
    \A t \in Threads :
        (inv[t].tool \in UpdateTools /\ inv[t].client # None /\ inv[t].changes = {})
        => /\ inv[t].pc \in {"get", "done"}
           /\ inv[t].calls = <<Call("get", inv[t].client, None, {})>>
           /\ (inv[t].pc = "done" /\ inv[t].result.kind = "return")
                 => /\ inv[t].result.entity = inv[t].current
                    /\ inv[t].current.id = EntityId

\* an update called with no fields returned the entity as the backend holds it
C9_Witness ==
    \E t \in Threads :
        /\ Done(t, "update")
        /\ inv[t].args = {}
        /\ inv[t].result.kind = "return"
        /\ inv[t].result.entity = entity
        /\ Len(inv[t].calls) = 1

\* C10: an assign or unassign that returned has issued one get and then one
\* edit whose change set is assigned_to: the user id, or assigned_to: None.
C10_AssignIsUpdate ==
    \A t \in Threads :
        (/\ inv[t].tool \in {"assign", "unassign"}
         /\ inv[t].pc = "done"
         /\ inv[t].result.kind = "return")
        => /\ Len(inv[t].calls) = 2
           /\ inv[t].calls[1].op = "get"
           /\ inv[t].calls[2].op = "edit"
           /\ inv[t].calls[2].data = IF inv[t].tool = "assign"
                                     THEN {<<"assigned_to", UserId>>}
                                     ELSE {<<"assigned_to", None>>}

\* C11: an update with a valid session and a non-empty change set whose get
\* failed, or returned an entity without a version, raises a validation error
\* (ValueError) and has issued no edit.
C11_VersionUnavailable ==
    \A t \in Threads :
        (/\ inv[t].tool \in UpdateTools
         /\ inv[t].pc = "done"
         /\ inv[t].client # None
         /\ inv[t].changes # {}
         /\ \/ inv[t].current = NoEntity
            \/ inv[t].current.version = None)
        => /\ inv[t].result.kind = "ValueError"
           /\ inv[t].calls = <<Call("get", inv[t].client, None, {})>>

\* the tools that resolve their session through get_authenticated_client
GateTools == {"list_projects", "update", "assign", "unassign", "delete",
              "add_task_tags", "assign_task_by_username"}
BackendFailures == TaigaErrors \cup {"conn"}

\* C12: a tool called with a session id the gate refuses raises
\* PermissionError and issues no backend call, and an invocation that has
\* issued a backend call has been through the gate and holds a wrapper.
C12_InvalidSession ==
    [][ \A t \in Threads :
           /\ (/\ inv[t].pc = "idle"
               /\ inv'[t].tool \in GateTools
               /\ get_authenticated_client(inv'[t].sid).raised # "")
              => /\ inv'[t].pc = "done"
                 /\ inv'[t].result.kind = "PermissionError"
                 /\ inv'[t].calls = <<>>
           /\ (inv'[t].tool \in GateTools /\ inv'[t].calls # <<>>)
              => (inv'[t].gates >= 1 /\ inv'[t].client # None)
      ]_vars

\* C13: of two updates in flight whose edits carry the same version, at most
\* one returns the edited entity and the entity advances by one version; the
\* other raises, a version conflict reaches its caller as the backend's error,
\* and no update issues more than one get and one edit.
C13_NoSilentClobber ==
    /\ \A t \in Threads :
          inv[t].tool \in UpdateTools => Len(inv[t].calls) <= 2
    /\ \A t, u \in Threads :
          (/\ t # u
           /\ inv[t].tool \in UpdateTools /\ inv[u].tool \in UpdateTools
           /\ Len(inv[t].calls) = 2 /\ Len(inv[u].calls) = 2
           /\ inv[t].calls[2].version = inv[u].calls[2].version
           /\ inv[t].result.kind = "return")
          => /\ entity.version = inv[t].calls[2].version + 1
             /\ inv[u].pc \in {"edit", "done"}
             /\ inv[u].pc = "done"
                  => /\ inv[u].result.kind \in {"TaigaException", "RuntimeError"}
                     /\ inv[u].result.cause \in BackendFailures
                     /\ inv[u].result.cause = "conflict"
                          => inv[u].result.kind = "TaigaException"

\* two updates read the same version; one edit was accepted and the other
\* ended with the backend's version conflict
C13_Witness ==
    \E t, u \in Threads :
        /\ t # u
        /\ Done(t, "update") /\ Done(u, "assign")
        /\ inv[t].current.version = inv[u].current.version
        /\ inv[t].result.kind = "return"
        /\ inv[u].result.kind = "TaigaException"
        /\ inv[u].result.cause = "conflict"
        /\ Len(inv[u].calls) = 2

C14_TagsKept ==
    [][ \A t \in Threads :
           (/\ inv[t].tool = "add_task_tags"
            /\ inv[t].pc = "edit"
            /\ inv'[t].pc = "done"
            /\ inv'[t].result.kind = "return")
           => (tag_set(entity.tags) \cup tag_set(changed(inv[t].args, "new_tags", 0)))
                 \subseteq tag_set(entity'.tags)
      ]_vars

\* C16: a tool whose backend call failed raises: the backend's error if the
\* backend reported the failure, RuntimeError for any other failure.
C16_ErrorClassification ==
    \A t \in Threads :
        (/\ inv[t].tool \in GateTools
         /\ inv[t].pc = "done"
         /\ inv[t].result.cause \in BackendFailures)
        => inv[t].result.kind = IF IsTaigaException(inv[t].result.cause)
                                THEN "TaigaException" ELSE "RuntimeError"

\* C17: session_status returns and never raises; its status is active,
\* inactive or error: error, check_failed exactly when the identity check
\* ended with an exception that is not the backend's, inactive with one of
\* the reasons token_invalid, not_authenticated, not_found otherwise.
C17_StatusNeverRaises ==
    \A t \in Threads :
        inv[t].tool = "session_status" =>
           /\ inv[t].result.kind \in {"none", "return"}
           /\ inv[t].pc = "done" =>
                LET r == inv[t].result
                IN  /\ r.kind = "return"
                    /\ r.session_id = inv[t].sid
                    /\ r.status \in {"active", "inactive", "error"}
                    /\ r.status = "active" => r.reason = ""
                    /\ r.status = "inactive" =>
                          r.reason \in {"token_invalid", "not_authenticated", "not_found"}
                    /\ r.status = "error" <=> r.reason = "check_failed"
                    /\ r.status = "error" <=> r.cause = "conn"

\* one status check ended in error and another found no session
C17_Witness ==
    \E t, u \in Threads :
        /\ Done(t, "session_status") /\ Done(u, "session_status")
        /\ inv[t].result.status = "error"
        /\ inv[t].result.cause = "conn"
        /\ inv[u].result.status = "inactive"
        /\ inv[u].result.reason = "not_found"

\* C18: session_status reports active, with the username users.me() returned,
\* only for a session it found registered with an authenticated wrapper and
\* whose identity check succeeded, and that step leaves the registry as it
\* is; it reports not_found exactly when the id is not registered, and then
\* it has issued no backend call.
C18_StatusActive ==
    [][ \A t \in Threads :
           /\ (inv'[t] # inv[t] /\ inv'[t].tool = "session_status"
                  /\ inv'[t].result.status = "active")
              => /\ inv[t].pc = "me"
                 /\ <<inv[t].sid, inv[t].client>> \in issued
                 /\ is_authenticated[inv[t].client]
                 /\ inv[t].calls = <<Call("me", inv[t].client, None, {})>>
                 /\ inv'[t].result.cause = "ok"
                 /\ inv'[t].result.username = Me.username
                 /\ active_sessions' = active_sessions
           /\ (inv[t].pc = "idle" /\ inv'[t].tool = "session_status")
              => /\ inv'[t].result.reason = "not_found"
                    <=> inv'[t].sid \notin DOMAIN active_sessions
                 /\ inv'[t].result.reason = "not_found"
                    => /\ inv'[t].pc = "done"
                       /\ inv'[t].result.status = "inactive"
                       /\ inv'[t].calls = <<>>
      ]_vars

\* a status check reported a registered session active
C18_Witness ==
    \E t \in Threads :
        /\ Done(t, "session_status")
        /\ inv[t].result.status = "active"
        /\ inv[t].result.username = Me.username
        /\ inv[t].sid \in DOMAIN active_sessions
        /\ Len(inv[t].calls) = 1

C20_GateOnce ==
    \A t \in Threads :
        inv[t].tool \in GateTools =>
           /\ inv[t].gates = 1
           /\ \A k \in 1 .. Len(inv[t].calls) : inv[t].calls[k].client = inv[t].client

\* the wrappers the registry holds
Registered == {active_sessions[s] : s \in DOMAIN active_sessions}

\* C21: every entry of the registry maps an id a login returned to the
\* wrapper of that login, whose exchange has succeeded; the wrapper of a login
\* in flight is not in the registry; and every wrapper a lookup resolved was
\* such an entry.
C21_AtomicRegistry ==
    /\ \A s \in DOMAIN active_sessions :
          /\ active_sessions[s] \in DOMAIN is_authenticated
          /\ is_authenticated[active_sessions[s]]
          /\ <<s, active_sessions[s]>> \in issued
    /\ \A t \in Threads :
          /\ inv[t].pc = "login" => inv[t].client \notin Registered
          /\ (inv[t].tool \in {"session_status", "list_projects"} /\ inv[t].client # None)
             => /\ is_authenticated[inv[t].client]
                /\ <<inv[t].sid, inv[t].client>> \in issued

\* a lookup resolved a session while a login was in flight
C21_Witness ==
    \E t, u \in Threads :
        /\ inv[t].pc = "login"
        /\ ~is_authenticated[inv[t].client]
        /\ inv[u].pc \in {"me", "list"}
        /\ inv[u].client \in Registered

\* C22: the registry changes only in the step of a login that returns an id,
\* which adds that id, in a logout, which removes the id it names, and in the
\* step of a session_status whose identity check failed with an authentication
\* error, which removes the id it names.
C22_RegistryFrame ==
    [][ active_sessions' # active_sessions =>
           \E t \in Threads :
              \/ /\ inv[t].pc = "login"
                 /\ inv'[t].result.kind = "return"
                 /\ inv'[t].result.session_id \notin DOMAIN active_sessions
                 /\ active_sessions' =
                       dict_set(active_sessions, inv'[t].result.session_id, inv[t].client)
              \/ /\ inv[t].pc = "idle"
                 /\ inv'[t].tool = "logout"
                 /\ active_sessions' = dict_pop(active_sessions, inv'[t].sid)
              \/ /\ inv[t].pc = "me"
                 /\ inv'[t].result.cause = "auth"
                 /\ active_sessions' = dict_pop(active_sessions, inv[t].sid)
      ]_vars

\* C27: a logout leaves the entry of every other session as it is, changes no
\* wrapper, and issues no backend call.
C27_LogoutTargeted ==
    [][ \A t \in Threads :
           (inv[t].pc = "idle" /\ inv'[t].tool = "logout") =>
              /\ DOMAIN active_sessions' = DOMAIN active_sessions \ {inv'[t].sid}
              /\ \A s \in DOMAIN active_sessions' : active_sessions'[s] = active_sessions[s]
              /\ is_authenticated' = is_authenticated
              /\ inv'[t].calls = <<>>
              /\ inv'[t].client = None
      ]_vars

\* a session was logged out while another stayed registered
C27_Witness ==
    \E t \in Threads :
        /\ Done(t, "logout")
        /\ inv[t].result.status = "logged_out"
        /\ \E s \in DOMAIN active_sessions :
              s # inv[t].sid /\ is_authenticated[active_sessions[s]]

\* C28: the step in which session_status ends its identity check leaves the
\* entry of every other session as it is, returns also when the session was
\* removed in the meantime, and registers nothing; after an authentication
\* error the session is not registered.
C28_EvictionTargeted ==
    [][ \A t \in Threads :
           (inv[t].pc = "me" /\ inv'[t].pc = "done") =>
              /\ DOMAIN active_sessions \ {inv[t].sid} =
                    DOMAIN active_sessions' \ {inv[t].sid}
              /\ \A s \in DOMAIN active_sessions' : active_sessions'[s] = active_sessions[s]
              /\ inv'[t].result.kind = "return"
              /\ inv'[t].result.cause = "auth" => inv[t].sid \notin DOMAIN active_sessions'
      ]_vars

\* a session_status evicted a session a concurrent logout had removed, while
\* another session stayed registered
C28_Witness ==
    \E t \in Threads :
        /\ Done(t, "session_status")
        /\ inv[t].result.cause = "auth"
        /\ inv[t].result.reason = "token_invalid"
        /\ inv[t].sid \in logged_out
        /\ DOMAIN active_sessions # {}

\* C23: a delete that passed the gate issues exactly one backend call, the
\* delete, with no get or version fetch before it; it ends either returning
\* status deleted with the id, or, when the backend call failed, raising that
\* failure (as the backend's error or wrapped in RuntimeError) with no deleted
\* status; a delete refused by the gate issues no call.
C23_DeleteOnce ==
    \A t \in Threads :
        inv[t].tool = "delete"
        => /\ inv[t].client = None => inv[t].calls = <<>>
           /\ inv[t].client # None
                => /\ inv[t].calls = <<Call("delete", inv[t].client, None, {})>>
                   /\ inv[t].pc \in {"delete", "done"}
                   /\ inv[t].pc = "done"
                        => \/ /\ inv[t].result.kind = "return"
                              /\ inv[t].result.status = "deleted"
                              /\ inv[t].result.entity.id = EntityId
                              /\ inv[t].result.cause = ""
                           \/ /\ inv[t].result.kind \in {"TaigaException", "RuntimeError"}
                              /\ inv[t].result.cause \in CallErrors
                              /\ inv[t].result.status = ""

\* one delete returned deleted with the id and another ended with the
\* backend's failure
C23_Witness ==
    \E t, u \in Threads :
        /\ Done(t, "delete") /\ Done(u, "delete")
        /\ inv[t].result.status = "deleted"
        /\ inv[t].result.entity.id = EntityId
        /\ inv[u].client # None
        /\ inv[u].result.kind = "TaigaException"
        /\ Len(inv[u].calls) = 1

\* C24: assign_task_by_username resolves the user before it writes.  With no
\* member matching it raises ValueError and has issued only the membership
\* listing; with several matches it returns multiple_matches and has issued
\* only the membership listing; with exactly one match it goes through
\* update_task once with assigned_to set to that member's id: one more gate,
\* at most one get and then at most one edit, the edit carrying the fetched
\* version and assigned_to alone; before the search has answered nothing but
\* the listing is issued.
C24_ResolveThenWrite ==
    \A t \in Threads :
        LET i == inv[t]
            listing == <<Call("list", i.client, None, {})>>
            get == Call("get", i.client, None, {})
            edit == Call("edit", i.client, i.current.version, assign_kwargs(UserId))
        IN  i.tool = "assign_task_by_username"
            => /\ i.found = None => (i.calls = <<>> \/ i.calls = listing)
               /\ i.found = 0
                    => /\ i.pc = "done"
                       /\ i.result.kind = "ValueError"
                       /\ i.calls = listing
               /\ i.found = 2
                    => /\ i.pc = "done"
                       /\ i.result.kind = "return"
                       /\ i.result.status = "multiple_matches"
                       /\ i.calls = listing
               /\ i.found = 1
                    => /\ i.gates = 2
                       /\ \/ i.calls = listing /\ i.pc = "done"
                          \/ i.calls = listing \o <<get>>
                          \/ i.calls = listing \o <<get, edit>>
                       /\ i.result.kind = "return"
                            => /\ Len(i.calls) = 3
                               /\ i.result.entity.assigned_to = UserId
                               /\ i.result.entity.version = i.current.version + 1

\* the three answers of the search have all been acted on: one invocation
\* found a single member and returned the task assigned to that member, and
\* another found none and raised ValueError
C24_Witness ==
    \E t, u \in Threads :
        /\ Done(t, "assign_task_by_username") /\ Done(u, "assign_task_by_username")
        /\ inv[t].found = 1
        /\ inv[t].result.kind = "return"
        /\ inv[t].result.entity.assigned_to = UserId
        /\ inv[u].found = 0
        /\ inv[u].result.kind = "ValueError"

\* C29: once logout(s) has returned logged_out, no step issues a backend call
\* through the wrapper that was registered under s, and no session_status(s)
\* completes reporting active.
C29_LogoutStopsInFlight ==
    [][\A t \in Threads :
          /\ (/\ Len(inv'[t].calls) > Len(inv[t].calls)
              /\ inv[t].sid \in logged_out)
             => inv'[t].calls[Len(inv'[t].calls)].client
                   # inv'[t].client
          /\ (/\ inv[t].tool = "session_status" /\ inv[t].pc = "me"
              /\ inv'[t].pc = "done"
              /\ inv[t].sid \in logged_out)
             => inv'[t].result.status # "active"
      ]_vars

C26_PingNeverRaises ==
    [][\A t \in Threads :
          (inv'[t].tool = "ping" /\ inv'[t] # inv[t])
          => /\ active_sessions' = active_sessions
             /\ is_authenticated' = is_authenticated
             /\ inv'[t].sid = None /\ inv'[t].client = None /\ inv'[t].gates = 0
             /\ inv'[t].pc = "done"
                  => /\ inv'[t].result.kind = "return"
                     /\ inv'[t].result.reason \in PingOutcomes
                     /\ inv'[t].result.status =
                           (CASE inv'[t].result.reason = "200" -> "success"
                              [] inv'[t].result.reason = "500" -> "warning"
                              [] inv'[t].result.reason = "Timeout" -> "timeout"
                              [] OTHER -> "error")
      ]_vars

\* a ping timed out and another failed to connect while the session was
\* registered
C26_Witness ==
    \E t, u \in Threads :
        /\ Done(t, "ping") /\ Done(u, "ping")
        /\ inv[t].result.status = "timeout"
        /\ inv[u].result.status = "error"
        /\ inv[u].result.reason = "ConnectionError"
        /\ 1 \in DOMAIN active_sessions

\* C30: a session_status on a session that is registered with a wrapper
\* whose flag is false returns inactive with reason not_authenticated in the
\* step of the lookup, issues no backend call and leaves the registry as it
\* is; the lookup answers not_found exactly when the session is absent from
\* the registry, and a check that found the session never ends with
\* not_found.
C30_NotAuthenticated ==
    [][\A t \in Threads :
          LET s == inv'[t].sid
              client_wrapper == dict_get(active_sessions, s)
          IN  /\ (inv[t].pc = "idle" /\ inv'[t].tool = "session_status")
                 => /\ (client_wrapper # None /\ ~is_authenticated[client_wrapper])
                         => /\ inv'[t].pc = "done"
                            /\ inv'[t].result.kind = "return"
                            /\ inv'[t].result.status = "inactive"
                            /\ inv'[t].result.reason = "not_authenticated"
                            /\ inv'[t].calls = <<>>
                            /\ active_sessions' = active_sessions
                    /\ inv'[t].result.reason = "not_found"
                         <=> s \notin DOMAIN active_sessions
              /\ (inv[t].pc = "me" /\ inv'[t].pc = "done")
                 => inv'[t].result.reason # "not_found"
      ]_vars

\* session_status answered not_authenticated for a session that is still
\* registered and that the gate refused to list_projects
C30_Witness ==
    \E t, u \in Threads :
        /\ Done(t, "session_status") /\ Done(u, "list_projects")
        /\ inv[t].sid = inv[u].sid
        /\ inv[t].sid \in DOMAIN active_sessions
        /\ inv[t].result.reason = "not_authenticated"
        /\ inv[t].calls = <<>>
        /\ inv[u].result.kind = "PermissionError"

====
